---- MODULE Spec2Model ----
(***************************************************************************)
(* Request orchestration of the Weather Pulse App component                *)
(* (src/src/App.tsx): the current-conditions fetch (Provider A), the       *)
(* weekly forecast fetch (Provider B), the two effects that tie them to    *)
(* the unit system and to the coordinates of the current result, and the   *)
(* three user handlers (search submit, device location, unit toggle).      *)
(*                                                                         *)
(* One action is one task of the single JavaScript thread: a DOM event     *)
(* handler, a geolocation callback, or the continuation of a fetch after   *)
(* its await.  The state updates of a task are committed by one render,    *)
(* and the effects (useEffect) whose dependencies that render has changed  *)
(* run with it, before any other task.                                     *)
(***************************************************************************)
EXTENDS Integers, Sequences, FiniteSets, TLC

(* ------------------------------ bounds --------------------------------- *)
\* asynchronous operations (Provider A calls, Provider B calls, device
\* position requests) pending at one time
MaxPending == 2

\* weather codes run from -MaxCode to MaxCode
MaxCode == 100

(* ------------------------------ values --------------------------------- *)
\* Objects are records; an optional field that is absent is a field the
\* record does not have.
Null      == [null |-> TRUE]        \* JavaScript null
Undefined == [undefined |-> TRUE]   \* JavaScript undefined
Pending   == [pending |-> TRUE]     \* an answer that has not come yet
None      == [field \in {} |-> TRUE]  \* the object {}

\* texts the user may type into the search box: nothing, white space only,
\* a name between white space
Queries == {<<>>, <<" ">>, <<" ", "a", " ">>}

Units == {"metric", "imperial"}

\* coord objects a Provider A body may carry; the last one is out of range
Coords == {[lat |-> 10, lon |-> 20], [lat |-> 91, lon |-> 20]}

\* positions the device may report
Positions == {[lat |-> 10, lon |-> 20]}

ConfigMsg     == "Add VITE_OPENWEATHER_API_KEY to a .env file to fetch data."
EmptyQueryMsg == "Enter a city name to search."
NoGeoMsg      == "Geolocation is not supported in this browser."
GeoDeniedMsg  == "Unable to access your location. Check browser permissions."
FallbackMsg   == "Unable to fetch weather right now."
UnknownMsg    == "Unknown error"
WeeklyFailMsg == "Unable to fetch the weekly forecast."
WeeklyNoneMsg == "Weekly forecast data is unavailable."

VARIABLES
  apiKey,           \* TRUE iff VITE_OPENWEATHER_API_KEY is configured
  geolocation,      \* TRUE iff navigator.geolocation exists
  query, units, data, loading, error,
  weekly, weeklyLoading, weeklyError,
  lastRequest,      \* lastRequest.current
  fetchA,           \* the Provider A calls in flight, oldest first
  fetchB,           \* the Provider B calls in flight, oldest first
  latest,           \* the answer to the Provider A call issued last, kept
                    \* while calls issued before it are in flight
  positionRequests  \* the pending getCurrentPosition calls

vars == <<apiKey, geolocation, query, units, data, loading, error,
          weekly, weeklyLoading, weeklyError, lastRequest,
          fetchA, fetchB, latest, positionRequests>>

(* --------------------------- pure helpers ------------------------------ *)
RECURSIVE trimStart(_)
trimStart(q) == IF q # <<>> /\ Head(q) = " " THEN trimStart(Tail(q)) ELSE q

RECURSIVE trimEnd(_)
trimEnd(q) ==
  IF q # <<>> /\ q[Len(q)] = " " THEN trimEnd(SubSeq(q, 1, Len(q) - 1)) ELSE q

\* a sequence without its k-th element
Without(seq, k) == SubSeq(seq, 1, k - 1) \o SubSeq(seq, k + 1, Len(seq))

\* String.prototype.trim
trim(q) == trimEnd(trimStart(q))

\* the WeatherRequest objects the handlers build
CityRequest(name)  == [city |-> name]

\* a request object with the two coordinates exchanged
CoordsRequest_Swapped(pos) == [lat |-> pos.lon, lon |-> pos.lat]

CoordsRequest(pos) == [lat |-> pos.lat, lon |-> pos.lon]

\* the URLSearchParams fetchWeather builds
WeatherParams(request, u) ==
  [units |-> u]
  @@ (IF "city" \in DOMAIN request /\ request.city # <<>>
      THEN [q |-> request.city] ELSE None)
  @@ (IF "lat" \in DOMAIN request /\ "lon" \in DOMAIN request
      THEN [lat |-> request.lat, lon |-> request.lon] ELSE None)

\* the URLSearchParams fetchWeeklyForecast builds
temperature_unit(u) == IF u = "imperial" THEN "fahrenheit" ELSE "celsius"

ForecastParams(lat, lon, u) ==
  [latitude |-> lat, longitude |-> lon, forecast_days |-> 7,
   temperature_unit |-> temperature_unit(u)]

\* data?.coord
coordOf(d) ==
  IF d = Null \/ "coord" \notin DOMAIN d THEN Undefined ELSE d.coord

\* the dependencies [data?.coord?.lat, data?.coord?.lon] of the forecast effect
\* (the record of those that are defined)
coordDeps(d) ==
  IF coordOf(d) = Undefined THEN None
  ELSE [lat |-> coordOf(d).lat, lon |-> coordOf(d).lon]

\* err instanceof Error ? err.message : 'Unknown error'
errorMessage(err) == IF err.isError THEN err.message ELSE UnknownMsg

(* ------------------- the component state as one value ------------------ *)
State ==
  [units |-> units, data |-> data, loading |-> loading, error |-> error,
   weekly |-> weekly, weeklyLoading |-> weeklyLoading,
   weeklyError |-> weeklyError, lastRequest |-> lastRequest,
   fetchA |-> fetchA, fetchB |-> fetchB, latest |-> latest,
   positionRequests |-> positionRequests]

\* fetchWeather without its credential check
fetchWeather_Unchecked(s, request, u) ==
  [s EXCEPT !.loading = TRUE,
            !.error = "",
            !.lastRequest = request,
            !.fetchA = Append(@, [request |-> request,
                                  params  |-> WeatherParams(request, u)]),
            !.latest = Pending]

\* fetchWeather without lastRequest.current = request
fetchWeather_Forgetful(s, request, u) ==
  IF ~apiKey
  THEN [s EXCEPT !.error = ConfigMsg]
  ELSE [s EXCEPT !.loading = TRUE,
                 !.error = "",
                 !.fetchA = Append(@, [request |-> request,
                                       params  |-> WeatherParams(request, u)]),
                 !.latest = Pending]

\* fetchWeather up to its await, as built by the render whose units are u
fetchWeather(s, request, u) ==
  IF ~apiKey
  THEN [s EXCEPT !.error = ConfigMsg]
  ELSE [s EXCEPT !.loading = TRUE,
                 !.error = "",
                 !.lastRequest = request,
                 !.fetchA = Append(@, [request |-> request,
                                       params  |-> WeatherParams(request, u)]),
                 !.latest = Pending]

\* fetchWeeklyForecast up to its await, as built by the render whose units are u
fetchWeeklyForecast(s, lat, lon, u) ==
  [s EXCEPT !.weeklyLoading = TRUE,
            !.weeklyError = "",
            !.fetchB = Append(@, [params |-> ForecastParams(lat, lon, u)])]

\* the unit replay effect of a render whose units are e.units
replayEffect(s, e) ==
  IF s.lastRequest # Null THEN fetchWeather(s, s.lastRequest, e.units) ELSE s

\* the forecast trigger effect without its setWeekly(null)
forecastEffect_NoReset(s, e) ==
  IF e.coord = Undefined
  THEN s
  ELSE fetchWeeklyForecast(s, e.coord.lat, e.coord.lon, e.units)

\* the forecast trigger effect of a render whose data?.coord is e.coord
forecastEffect(s, e) ==
  IF e.coord = Undefined
  THEN [s EXCEPT !.weekly = Null]
  ELSE fetchWeeklyForecast(s, e.coord.lat, e.coord.lon, e.units)

runEffect(s, e) ==
  IF e.kind = "replay" THEN replayEffect(s, e) ELSE forecastEffect(s, e)

\* the effects of a render, run in the order of their declaration
RECURSIVE flushPassiveEffects(_, _)
flushPassiveEffects(s, es) ==
  IF es = <<>> THEN s ELSE flushPassiveEffects(runEffect(s, Head(es)), Tail(es))

\* the effects of a component whose useEffect calls have no dependency
\* array: both run after every render
changedEffects_NoDeps(prev, s) ==
  <<[kind |-> "replay", units |-> s.units],
    [kind |-> "forecast", units |-> s.units, coord |-> coordOf(s.data)]>>

\* the effects whose dependencies differ between the render of state prev
\* and the render of state s ([fetchWeather, units] and
\* [lat, lon, fetchWeeklyForecast]; the two callbacks change exactly when
\* units does, apiKey being fixed)
changedEffects(prev, s) ==
  (IF s.units # prev.units
   THEN <<[kind |-> "replay", units |-> s.units]>>
   ELSE <<>>)
  \o
  (IF s.units # prev.units \/ coordDeps(s.data) # coordDeps(prev.data)
   THEN <<[kind |-> "forecast", units |-> s.units, coord |-> coordOf(s.data)]>>
   ELSE <<>>)

\* the state after the render that follows the render of prev: it commits
\* s, the state a task's body left, and runs its effects.  (What the
\* effects set changes no dependency, so the render they cause runs none.)
commit(prev, s) == flushPassiveEffects(s, changedEffects(prev, s))

\* The end of a task whose body left the state s.  A task that would leave
\* more than MaxPending operations pending is not taken.
Render(s) ==
  \E t \in {commit(State, s)} :
  /\ Len(t.fetchA) + Len(t.fetchB) + Len(t.positionRequests) <= MaxPending
  /\ units' = t.units
  /\ data' = t.data
  /\ loading' = t.loading
  /\ error' = t.error
  /\ weekly' = t.weekly
  /\ weeklyLoading' = t.weeklyLoading
  /\ weeklyError' = t.weeklyError
  /\ lastRequest' = t.lastRequest
  /\ fetchA' = t.fetchA
  /\ fetchB' = t.fetchB
  /\ latest' = t.latest
  /\ positionRequests' = t.positionRequests
  /\ UNCHANGED <<apiKey, geolocation>>

(* ---------------------- what the network may answer -------------------- *)
\* what a rejected fetch() or response.json() may throw: an Error with a
\* message, an Error whose message is empty, a value that is no Error
Thrown == {[isError |-> TRUE,  message |-> "Failed to fetch"],
           [isError |-> TRUE,  message |-> ""],
           [isError |-> FALSE]}

\* the temperature a provider reports for `celsius`, in the unit asked for
Degrees(unit, celsius) ==
  IF unit \in {"imperial", "fahrenheit"} THEN (celsius * 9) \div 5 + 32
  ELSE celsius

\* a WeatherData body of Provider A for the call p: a temperature in the
\* units asked for; `more` is its coord field, if any
WeatherBody(p, more) == [main |-> [temp |-> Degrees(p.units, 20)]] @@ more

\* Provider A: the call rejects, or answers non-2xx with an optional
\* message, or answers 2xx with a WeatherData body
ProviderA(p) ==
  {[type |-> "reject", err |-> e] : e \in Thrown}
  \cup {[type |-> "response", ok |-> FALSE, body |-> b] :
          b \in {[message |-> "city not found"], [message |-> ""], None}}
  \cup {[type |-> "response", ok |-> TRUE, body |-> WeatherBody(p, more)] :
          more \in {[coord |-> c] : c \in Coords} \cup {None}}

\* the daily objects of Provider B: some series absent or shorter than
\* time; time empty; time absent
Dailies(p) ==
  LET u == p.temperature_unit IN
  { [time |-> <<"d1", "d2">>,
     weathercode |-> <<61>>,
     temperature_2m_max |-> <<Degrees(u, 20), Degrees(u, 25)>>,
     sunrise |-> <<"r1">>],
    [time |-> <<>>, weathercode |-> <<>>,
     temperature_2m_max |-> <<>>, temperature_2m_min |-> <<>>,
     uv_index_max |-> <<>>, sunrise |-> <<>>, sunset |-> <<>>],
    None }

\* Provider B: the call rejects, or answers non-2xx, or answers 2xx with a
\* body whose daily object may be absent
ProviderB(p) ==
  {[type |-> "reject", err |-> e] : e \in Thrown}
  \cup {[type |-> "response", ok |-> FALSE, body |-> None]}
  \cup {[type |-> "response", ok |-> TRUE, body |-> b] :
          b \in {[daily |-> d] : d \in Dailies(p)} \cup {None}}

(* ------------------- the two fetches after their await ----------------- *)
\* what the try block of fetchWeather throws on the answer r, if anything
weatherThrows(r) ==
  IF r.type = "reject" THEN r.err
  ELSE IF ~r.ok
       THEN [isError |-> TRUE,
             message |-> IF "message" \in DOMAIN r.body /\ r.body.message # ""
                         THEN r.body.message ELSE FallbackMsg]
       ELSE Null

\* fetchWeather from its await on: try, catch, finally
settleWeather(s, i, r) ==
  LET err == weatherThrows(r)
      s1  == [s EXCEPT !.fetchA = Without(@, i),
                       !.latest = IF Len(s.fetchA) = 1 THEN Null
                                  ELSE IF i = Len(s.fetchA) /\ @ = Pending
                                       THEN r ELSE @]
      s2  == IF err = Null
             THEN [s1 EXCEPT !.data = r.body]
             ELSE [s1 EXCEPT !.error = errorMessage(err), !.data = Null]
  IN [s2 EXCEPT !.loading = FALSE]

\* a JavaScript array
Array(items) == [length |-> Len(items), items |-> items]

\* field: daily.series?.[index] ?? fallback
Defaulted(daily, series, index, field, fallback) ==
  IF series \in DOMAIN daily /\ index \in 1..Len(daily[series])
  THEN field :> daily[series][index] ELSE field :> fallback

\* an optional field that is defaulted to 0 like the numeric ones
Optional_Defaulted(daily, series, index, field) ==
  Defaulted(daily, series, index, field, 0)

\* field: daily.series?.[index], absent when that is undefined
Optional(daily, series, index, field) ==
  IF series \in DOMAIN daily /\ index \in 1..Len(daily[series])
  THEN field :> daily[series][index] ELSE None

\* daily.time.map((date, index) => ...)
nextWeek(daily) ==
  Array([index \in 1..Len(daily.time) |->
     [date |-> daily.time[index]]
     @@ Defaulted(daily, "weathercode", index, "code", 0)
     @@ Defaulted(daily, "temperature_2m_max", index, "tempMax", 0)
     @@ Defaulted(daily, "temperature_2m_min", index, "tempMin", 0)
     @@ Optional(daily, "uv_index_max", index, "uvMax")
     @@ Optional(daily, "sunrise", index, "sunrise")
     @@ Optional(daily, "sunset", index, "sunset")])

\* !daily?.time, which lets an empty series through
noTimeSeries_AnyLength(body) ==
  \/ "daily" \notin DOMAIN body
  \/ "time" \notin DOMAIN body.daily

\* !daily?.time?.length, for body.daily
noTimeSeries(body) ==
  \/ "daily" \notin DOMAIN body
  \/ "time" \notin DOMAIN body.daily
  \/ Len(body.daily.time) = 0

\* what the try block of fetchWeeklyForecast throws on the answer r
forecastThrows(r) ==
  IF r.type = "reject" THEN r.err
  ELSE IF ~r.ok THEN [isError |-> TRUE, message |-> WeeklyFailMsg]
  ELSE IF noTimeSeries(r.body)
       THEN [isError |-> TRUE, message |-> WeeklyNoneMsg]
       ELSE Null

\* fetchWeeklyForecast from its await on, with a catch that also drops
\* the current-conditions result
settleForecast_DropsData(s, i, r) ==
  LET err == forecastThrows(r)
      s1  == [s EXCEPT !.fetchB = Without(@, i)]
      s2  == IF err = Null
             THEN [s1 EXCEPT !.weekly = nextWeek(r.body.daily)]
             ELSE [s1 EXCEPT !.weeklyError = errorMessage(err),
                             !.weekly = Null,
                             !.data = Null]
  IN [s2 EXCEPT !.weeklyLoading = FALSE]

\* fetchWeeklyForecast from its await on: try, catch, finally
settleForecast(s, i, r) ==
  LET err == forecastThrows(r)
      s1  == [s EXCEPT !.fetchB = Without(@, i)]
      s2  == IF err = Null
             THEN [s1 EXCEPT !.weekly = nextWeek(r.body.daily)]
             ELSE [s1 EXCEPT !.weeklyError = errorMessage(err),
                             !.weekly = Null]
  IN [s2 EXCEPT !.weeklyLoading = FALSE]

(* ------------------------------ actions -------------------------------- *)
\* the state after the component has mounted: both effects have run once,
\* the replay with no lastRequest, the forecast trigger with no data
Init ==
  /\ apiKey \in BOOLEAN
  /\ geolocation \in BOOLEAN
  /\ query = <<>>
  /\ units \in Units
  /\ data = Null
  /\ loading = FALSE
  /\ error = ""
  /\ weekly = Null
  /\ weeklyLoading = FALSE
  /\ weeklyError = ""
  /\ lastRequest = Null
  /\ fetchA = <<>>
  /\ fetchB = <<>>
  /\ latest = Null
  /\ positionRequests = <<>>

\* the search input's onChange
onChange ==
  /\ \E text \in Queries : text # query /\ query' = text
  /\ UNCHANGED <<apiKey, geolocation, units, data, loading, error, weekly,
                 weeklyLoading, weeklyError, lastRequest, fetchA, fetchB,
                 latest, positionRequests>>

\* the body of onSubmit without the trim
submit_Untrimmed(s) ==
  IF query = <<>>
  THEN [s EXCEPT !.error = EmptyQueryMsg]
  ELSE fetchWeather(s, CityRequest(query), s.units)

\* the body of onSubmit
submit(s) ==
  LET trimmed == trim(query) IN
  IF trimmed = <<>>
  THEN [s EXCEPT !.error = EmptyQueryMsg]
  ELSE fetchWeather(s, CityRequest(trimmed), s.units)

onSubmit ==
  /\ Render(submit(State))
  /\ UNCHANGED query

\* onUseLocation: without the capability an error is stored; with it a
\* position request starts, whose success callback calls the fetchWeather
\* of the render that built this handler
onUseLocation ==
  /\ IF ~geolocation
     THEN Render([State EXCEPT !.error = NoGeoMsg])
     ELSE /\ Len(fetchA) + Len(fetchB) + Len(positionRequests) < MaxPending
          /\ positionRequests' = Append(positionRequests, units)
          /\ UNCHANGED <<apiKey, geolocation, units, data, loading, error,
                         weekly, weeklyLoading, weeklyError, lastRequest,
                         fetchA, fetchB, latest>>
  /\ UNCHANGED query

\* the success callback of getCurrentPosition
positionSuccess(s, k, position) ==
  fetchWeather([s EXCEPT !.positionRequests = Without(@, k)],
               CoordsRequest(position), s.positionRequests[k])

onPosition ==
  /\ \E k \in 1..Len(positionRequests), position \in Positions :
       Render(positionSuccess(State, k, position))
  /\ UNCHANGED query

\* the error callback of getCurrentPosition
positionError(s, k) ==
  [s EXCEPT !.positionRequests = Without(@, k), !.error = GeoDeniedMsg]

onPositionError ==
  /\ \E k \in 1..Len(positionRequests) : Render(positionError(State, k))
  /\ UNCHANGED query

\* a toggle that never leaves imperial
toggle_OneWay(s) == [s EXCEPT !.units = "imperial"]

\* setUnits((current) => (current === 'metric' ? 'imperial' : 'metric'))
toggle(s) ==
  [s EXCEPT !.units = IF @ = "metric" THEN "imperial" ELSE "metric"]

toggleUnits ==
  /\ Render(toggle(State))
  /\ UNCHANGED query

\* a Provider A call settles and fetchWeather resumes
WeatherSettles ==
  /\ \E i \in 1..Len(fetchA) :
       /\ \E r \in ProviderA(fetchA[i].params) :
            Render(settleWeather(State, i, r))
  /\ UNCHANGED query

\* a Provider B call settles and fetchWeeklyForecast resumes
ForecastSettles ==
  /\ \E i \in 1..Len(fetchB) :
       /\ \E r \in ProviderB(fetchB[i].params) :
            Render(settleForecast(State, i, r))
  /\ UNCHANGED query

Next ==
  \/ onChange
  \/ onSubmit
  \/ onUseLocation
  \/ onPosition
  \/ onPositionError
  \/ toggleUnits
  \/ WeatherSettles
  \/ ForecastSettles

Spec == Init /\ [][Next]_vars

(* ------------------ the forecast card and its inputs ------------------- *)
\* getWeeklySummary with code > 95 for its last range
getWeeklySummary_Above95(code) ==
  IF code = 0 THEN [label |-> "Clear", emoji |-> "U+2600"]
  ELSE IF code >= 1 /\ code <= 3 THEN [label |-> "Clouds", emoji |-> "U+26C5"]
  ELSE IF code = 45 \/ code = 48 THEN [label |-> "Fog", emoji |-> "U+1F32B"]
  ELSE IF code >= 51 /\ code <= 55 THEN [label |-> "Drizzle", emoji |-> "U+1F326"]
  ELSE IF code >= 61 /\ code <= 67 THEN [label |-> "Rain", emoji |-> "U+1F327"]
  ELSE IF code >= 71 /\ code <= 77 THEN [label |-> "Snow", emoji |-> "U+2744"]
  ELSE IF code >= 80 /\ code <= 82 THEN [label |-> "Showers", emoji |-> "U+1F326"]
  ELSE IF code = 85 \/ code = 86 THEN [label |-> "Snow", emoji |-> "U+1F328"]
  ELSE IF code > 95 THEN [label |-> "Storm", emoji |-> "U+26C8"]
  ELSE [label |-> "Clear", emoji |-> "U+2728"]

\* getWeeklySummary; an emoji is written as its code point
getWeeklySummary(code) ==
  IF code = 0 THEN [label |-> "Clear", emoji |-> "U+2600"]
  ELSE IF code >= 1 /\ code <= 3 THEN [label |-> "Clouds", emoji |-> "U+26C5"]
  ELSE IF code = 45 \/ code = 48 THEN [label |-> "Fog", emoji |-> "U+1F32B"]
  ELSE IF code >= 51 /\ code <= 55 THEN [label |-> "Drizzle", emoji |-> "U+1F326"]
  ELSE IF code >= 61 /\ code <= 67 THEN [label |-> "Rain", emoji |-> "U+1F327"]
  ELSE IF code >= 71 /\ code <= 77 THEN [label |-> "Snow", emoji |-> "U+2744"]
  ELSE IF code >= 80 /\ code <= 82 THEN [label |-> "Showers", emoji |-> "U+1F326"]
  ELSE IF code = 85 \/ code = 86 THEN [label |-> "Snow", emoji |-> "U+1F328"]
  ELSE IF code >= 95 THEN [label |-> "Storm", emoji |-> "U+26C8"]
  ELSE [label |-> "Clear", emoji |-> "U+2728"]

\* the summaries the forecast card shows: weekly.map((day) =>
\* getWeeklySummary(day.code)), nothing while weekly is null
summaries(w) ==
  IF w = Null THEN <<>>
  ELSE [index \in 1..w.length |-> getWeeklySummary(w.items[index].code)]

\* the weather codes Provider B may report
Codes == (0 - MaxCode)..MaxCode

\* a series of Provider B: absent, shorter than time, as long as time
Shapes(series, values) ==
  {None, series :> SubSeq(values, 1, 1), series :> values}

\* the daily objects of Provider B, in full: one day with any weather
\* code; two days with each series absent, short or complete; and those
\* of Dailies
WideDailies(p) ==
  LET u == p.temperature_unit IN
  {[time |-> <<"d1">>, weathercode |-> <<code>>] : code \in Codes}
  \cup {[time |-> <<"d1", "d2">>] @@ c @@ hi @@ lo @@ uv @@ rise @@ set :
          c    \in Shapes("weathercode", <<61, 95>>),
          hi   \in Shapes("temperature_2m_max", <<Degrees(u, 20), Degrees(u, 25)>>),
          lo   \in Shapes("temperature_2m_min", <<Degrees(u, 10), Degrees(u, 15)>>),
          uv   \in Shapes("uv_index_max", <<5, 6>>),
          rise \in Shapes("sunrise", <<"r1", "r2">>),
          set  \in Shapes("sunset", <<"s1", "s2">>)}
  \cup Dailies(p)

\* Provider B with the daily objects of WideDailies
WideProviderB(p) ==
  {[type |-> "reject", err |-> e] : e \in Thrown}
  \cup {[type |-> "response", ok |-> FALSE, body |-> None]}
  \cup {[type |-> "response", ok |-> TRUE, body |-> b] :
          b \in {[daily |-> d] : d \in WideDailies(p)} \cup {None}}

\* The forecast fetch alone.  The state after a search for "a" was answered
\* with coordinates: the result is held and the forecast call for it is in
\* flight.
ForecastInit ==
  /\ apiKey = TRUE
  /\ geolocation = FALSE
  /\ query = <<" ", "a", " ">>
  /\ units \in Units
  /\ data \in {WeatherBody([units |-> units], [coord |-> c]) : c \in Coords}
  /\ loading = FALSE
  /\ error = ""
  /\ weekly = Null
  /\ weeklyLoading = TRUE
  /\ weeklyError = ""
  /\ lastRequest = CityRequest(<<"a">>)
  /\ fetchA = <<>>
  /\ fetchB = <<[params |-> ForecastParams(data.coord.lat, data.coord.lon, units)]>>
  /\ latest = Null
  /\ positionRequests = <<>>

\* the Provider B call settles, with any answer of WideProviderB, and
\* fetchWeeklyForecast resumes
ForecastAnswers ==
  /\ \E i \in 1..Len(fetchB) :
       /\ \E r \in WideProviderB(fetchB[i].params) :
            Render(settleForecast(State, i, r))
  /\ UNCHANGED query

ForecastNext == ForecastAnswers

ForecastSpec == ForecastInit /\ [][ForecastNext]_vars

(* ------------------------------- claims -------------------------------- *)
\* a Provider A call settles in this step (no other step shortens fetchA)
WeatherSettled == Len(fetchA') < Len(fetchA)

\* a Provider B call settles in this step (no other step shortens fetchB)
ForecastSettled == Len(fetchB') < Len(fetchB)

\* the current-conditions outcome of the answer r: the body as data, or no
\* data and the failure's message
OutcomeOf(r) ==
  IF r.type = "response" /\ r.ok
  THEN [data |-> r.body]
  ELSE [data |-> Null,
        error |-> IF r.type = "reject"
                  THEN (IF r.err.isError THEN r.err.message ELSE UnknownMsg)
                  ELSE IF "message" \in DOMAIN r.body /\ r.body.message # ""
                       THEN r.body.message ELSE FallbackMsg]

\* C1: last write wins.  When the call issued last has been answered and
\* then the last call issued before it settles, so that none is left in
\* flight, data (and, for a failure, error) are the outcome of the call
\* issued last.
C1_LastWriteWins ==
  [][(WeatherSettled /\ fetchA' = <<>> /\ latest \notin {Null, Pending})
       => /\ data' = OutcomeOf(latest).data
          /\ (data' = Null => error' = OutcomeOf(latest).error)]_vars

\* C2: without a credential no network call is ever issued to either
\* provider, and every attempt to fetch the current conditions (a search
\* submit with a name, a reported position; a unit toggle has no location
\* to replay) stores the configuration message as error.
C2_NoCredential ==
  /\ [](~apiKey => fetchA = <<>> /\ fetchB = <<>>)
  /\ [][(~apiKey /\ ((onSubmit /\ trim(query) # <<>>) \/ onPosition))
          => error' = ConfigMsg]_vars
  /\ [](~apiKey => lastRequest = Null)

\* a search with a name was submitted without a credential
C2_Witness ==
  ~apiKey /\ trim(query) # <<>> /\ error = ConfigMsg

\* C3: the forecast is never left stale.  With no current-conditions result
\* and nothing in flight, the forecast state is idle: no value, no error
\* message, not loading.
C3_ForecastNeverStale ==
  (data = Null /\ fetchA = <<>> /\ fetchB = <<>>)
    => (weekly = Null /\ weeklyError = "" /\ ~weeklyLoading)

\* the other unit system
Other(u) == IF u = "metric" THEN "imperial" ELSE "metric"

\* the Provider A call c asks for the location of request, in the units u,
\* and for nothing else
Carries(c, request, u) ==
  /\ c.params.units = u
  /\ IF "city" \in DOMAIN request
     THEN DOMAIN c.params = {"units", "q"} /\ c.params.q = request.city
     ELSE /\ DOMAIN c.params = {"units", "lat", "lon"}
          /\ c.params.lat = request.lat
          /\ c.params.lon = request.lon

\* the state after the unit toggle is clicked in the state s
Toggled(s) == commit(s, toggle(s))

\* C4: unit toggle idempotence.  From any state with a stored last location
\* and a credential, two unit toggles in a row leave units as it was and
\* issue exactly two Provider A calls, the first in the other unit system,
\* the second in the original one, both for the stored last location,
\* which stays stored.
C4_ToggleTwice ==
  (apiKey /\ lastRequest # Null) =>
    LET once  == Toggled(State)
        twice == Toggled(once)
        n     == Len(fetchA) IN
    /\ once.units = Other(units)
    /\ twice.units = units
    /\ Len(once.fetchA) = n + 1
    /\ Len(twice.fetchA) = n + 2
    /\ SubSeq(twice.fetchA, 1, n) = fetchA
    /\ Carries(twice.fetchA[n + 1], lastRequest, Other(units))
    /\ Carries(twice.fetchA[n + 2], lastRequest, units)
    /\ twice.lastRequest = lastRequest

\* the unit toggle was clicked twice with a stored location: two calls for
\* it are in flight, the older in the other unit system
C4_Witness ==
  /\ apiKey /\ lastRequest # Null /\ Len(fetchA) = 2
  /\ Carries(fetchA[1], lastRequest, Other(units))
  /\ Carries(fetchA[2], lastRequest, units)
  /\ data = Null /\ error = ""

\* C5: a settling forecast fetch, whatever its outcome, leaves data, error,
\* loading and the last-request memory as they were (and issues no
\* Provider A call).
C5_ForecastLeavesCurrent ==
  [][ForecastSettled => UNCHANGED <<data, error, loading, lastRequest, fetchA>>]_vars

\* a forecast fetch has failed and the current-conditions result is held
C5_Witness ==
  /\ data # Null /\ error = "" /\ ~loading
  /\ weeklyError = WeeklyFailMsg /\ weekly = Null /\ fetchB = <<>>

\* the forecast state holds a success value
ForecastSuccess == weekly # Null /\ weeklyError = "" /\ ~weeklyLoading

\* a current-conditions fetch fails in this step
WeatherFailed == WeatherSettled /\ data' = Null

\* C6 as stated: a failing current-conditions fetch leaves a forecast
\* success value in place.
C6_FailureKeepsForecast ==
  [][(WeatherFailed /\ ForecastSuccess) => weekly' = weekly]_vars

\* C6 as amended: a failing current-conditions fetch never touches the
\* forecast error message, the forecast loading flag or the forecast calls
\* in flight; the forecast value is reset to null when the failure removes
\* a result that had coordinates (the forecast trigger runs with no data)
\* and is left as it was otherwise.
C6_FailureResetsForecastValue ==
  [][WeatherFailed =>
       /\ UNCHANGED <<weeklyError, weeklyLoading, fetchB>>
       /\ weekly' = IF coordOf(data) # Undefined THEN Null ELSE weekly]_vars

\* a forecast success value is held for a result with coordinates while a
\* current-conditions fetch, which may fail, is in flight
C6_Witness ==
  ForecastSuccess /\ coordOf(data) # Undefined /\ fetchA # <<>>

\* n spaces
RECURSIVE Spaces(_)
Spaces(n) == IF n = 0 THEN <<>> ELSE <<" ">> \o Spaces(n - 1)

\* name is text without the white space at its two ends
IsTrimmed(name, text) ==
  /\ name = <<>> \/ (name[1] # " " /\ name[Len(name)] # " ")
  /\ \E i, j \in 0..Len(text) : text = Spaces(i) \o name \o Spaces(j)

\* C7: search submit.  With a text that is empty once trimmed: the
\* validation message is stored, no call is issued, data and the
\* last-request memory stay.  Otherwise (with a credential) exactly one
\* Provider A call is issued, for the city named by the trimmed text, which
\* becomes the last-request memory, and no Provider B call is issued.
C7_SearchSubmit ==
  [][onSubmit =>
       IF IsTrimmed(<<>>, query)
       THEN /\ error' = EmptyQueryMsg
            /\ UNCHANGED <<data, lastRequest, fetchA, fetchB>>
       ELSE apiKey =>
              /\ Len(fetchA') = Len(fetchA) + 1
              /\ SubSeq(fetchA', 1, Len(fetchA)) = fetchA
              /\ DOMAIN lastRequest' = {"city"}
              /\ IsTrimmed(lastRequest'.city, query)
              /\ Carries(fetchA'[Len(fetchA')], lastRequest', units)
              /\ fetchB' = fetchB]_vars

\* a text with white space around a name was submitted: the call in flight
\* asks for the name alone
C7_Witness ==
  /\ query = <<" ", "a", " ">> /\ Len(fetchA) = 1
  /\ fetchA[1].params.q = <<"a">> /\ lastRequest = [city |-> <<"a">>]

\* only white space was submitted
C7_WitnessEmpty ==
  query = <<" ">> /\ error = EmptyQueryMsg /\ lastRequest = Null

\* the body of a 2xx answer of Provider B has no daily.time series, or an
\* empty one
SeriesMissing(body) ==
  \/ "daily" \notin DOMAIN body
  \/ "time" \notin DOMAIN body.daily
  \/ body.daily.time = <<>>

\* C8: forecast unavailable.  A 2xx answer of Provider B whose daily.time
\* series is absent or empty leaves the forecast state at error with the
\* message WeeklyNoneMsg, no value and not loading; and the forecast value
\* is never an empty sequence.
C8_ForecastUnavailable ==
  /\ [][\A i \in 1..Len(fetchB) : \A r \in ProviderB(fetchB[i].params) :
          (/\ r.type = "response" /\ r.ok /\ SeriesMissing(r.body)
           /\ Render(settleForecast(State, i, r)))
          => (weeklyError' = WeeklyNoneMsg /\ weekly' = Null /\ ~weeklyLoading')]_vars
  /\ [](weekly # Null => weekly.length > 0)

\* a forecast answer without a time series has been processed
C8_Witness ==
  weeklyError = WeeklyNoneMsg /\ weekly = Null /\ ~weeklyLoading /\ fetchB = <<>>

\* the failure thrown by the rejected call r carries no message
NoMessage(r) ==
  r.type = "reject" /\ (~r.err.isError \/ r.err.message = "")

\* C9: errors are contained.  Every settling fetch leaves its fetcher with
\* a value, or with no value and a non-empty error message; and a
\* current-conditions failure whose cause carries no message stores
\* "Unknown error".
C9_ErrorsContained ==
  /\ [][WeatherSettled => (data' # Null \/ error' # "")]_vars
  /\ [][ForecastSettled => (weekly' # Null \/ weeklyError' # "")]_vars
  /\ [][\A i \in 1..Len(fetchA) : \A r \in ProviderA(fetchA[i].params) :
          (NoMessage(r) /\ Render(settleWeather(State, i, r)))
          => error' = UnknownMsg]_vars

\* a Provider A call is issued in this step (no step issues two)
WeatherIssued == Len(fetchA') > Len(fetchA)

\* C10: last-request memory.  It is empty until the first Provider A call;
\* a step that issues a Provider A call stores that call's location, and no
\* other step changes it; a unit toggle issues one call for exactly the
\* stored location, and none while the memory is empty.
C10_LastRequestMemory ==
  /\ [](lastRequest = Null => fetchA = <<>>)
  /\ [][/\ WeatherIssued =>
             /\ Len(fetchA') = Len(fetchA) + 1
             /\ lastRequest' = fetchA'[Len(fetchA')].request
             /\ Carries(fetchA'[Len(fetchA')], lastRequest',
                        fetchA'[Len(fetchA')].params.units)
        /\ ~WeatherIssued => lastRequest' = lastRequest
        /\ (units' # units /\ lastRequest = Null) => ~WeatherIssued
        /\ (units' # units /\ lastRequest # Null /\ apiKey) =>
             /\ WeatherIssued
             /\ lastRequest' = lastRequest
             /\ Carries(fetchA'[Len(fetchA')], lastRequest, units')]_vars

\* a city was searched, then the device position: the memory holds the
\* position, the location of the call issued last
C10_Witness ==
  /\ Len(fetchA) = 2
  /\ DOMAIN fetchA[1].request = {"city"}
  /\ DOMAIN fetchA[2].request = {"lat", "lon"}
  /\ lastRequest = fetchA[2].request

\* a user action that asks for the current conditions: a search submit with
\* a name, a reported device position, a unit toggle with a stored location
UserTrigger ==
  \/ onSubmit /\ ~IsTrimmed(<<>>, query)
  \/ onPosition
  \/ toggleUnits /\ lastRequest # Null

\* this step issues exactly one Provider A call
OneWeatherCall ==
  Len(fetchA') = Len(fetchA) + 1 /\ SubSeq(fetchA', 1, Len(fetchA)) = fetchA

\* this step issues no Provider A call
NoWeatherCall ==
  fetchA' = fetchA \/ \E i \in 1..Len(fetchA) : fetchA' = Without(fetchA, i)

\* C11: no automatic retry.  With a credential, a step issues one Provider A
\* call if it is a user action that asks for the current conditions and
\* none otherwise, so the calls issued are as many as those actions; no
\* call to either provider is in flight before the first such action; and
\* the step in which a current-conditions fetch fails issues no call to
\* either provider.
C11_NoAutomaticRetry ==
  /\ [](lastRequest = Null => (fetchA = <<>> /\ fetchB = <<>>))
  /\ [][apiKey => /\ UserTrigger => OneWeatherCall
                  /\ ~UserTrigger => NoWeatherCall]_vars
  /\ [][(WeatherSettles /\ data' = Null)
          => (NoWeatherCall /\ fetchB' = fetchB)]_vars

\* a current-conditions fetch has failed and nothing has been issued since
C11_Witness ==
  /\ apiKey /\ lastRequest # Null /\ data = Null /\ error = FallbackMsg
  /\ fetchA = <<>> /\ fetchB = <<>> /\ positionRequests = <<>>

\* a Provider B call is issued in this step (no step issues two)
ForecastIssued == Len(fetchB') > Len(fetchB)

\* d holds coordinates, and they are a latitude and a longitude
ValidCoords(d) ==
  /\ coordOf(d) # Undefined
  /\ coordOf(d).lat \in -90..90
  /\ coordOf(d).lon \in -180..180

\* C12: a forecast call is issued only with valid coordinates.  A step that
\* issues a Provider B call leaves a current-conditions result whose
\* coordinates are present and valid, and the call carries them; a step
\* that leaves a result with missing or invalid coordinates issues none.
C12_ForecastOnlyValidCoords ==
  /\ [][ForecastIssued =>
          /\ ValidCoords(data')
          /\ fetchB'[Len(fetchB')].params.latitude = coordOf(data').lat
          /\ fetchB'[Len(fetchB')].params.longitude = coordOf(data').lon]_vars
  /\ [][(WeatherSettled /\ data' # Null /\ ~ValidCoords(data'))
          => ~ForecastIssued]_vars

\* a current-conditions fetch succeeds in this step
WeatherSucceeded == WeatherSettled /\ data' # Null

\* C13: every successful current-conditions fetch whose result has valid
\* coordinates issues a forecast call for them, also when the result held
\* before had the same coordinates.
C13_SuccessTriggersForecast ==
  [][(WeatherSucceeded /\ ValidCoords(data')) =>
       /\ ForecastIssued
       /\ fetchB'[Len(fetchB')].params.latitude = coordOf(data').lat
       /\ fetchB'[Len(fetchB')].params.longitude = coordOf(data').lon]_vars

\* C14: device location.  Without the capability, or when the position
\* request is denied or times out, an error message is stored, no network
\* call is issued, and data and the last-request memory stay; asking for
\* the position issues no network call either; a reported position (with
\* a credential) issues exactly one Provider A call, for the reported
\* latitude and longitude, and no Provider B call.
C14_DeviceLocation ==
  /\ [][(onUseLocation /\ ~geolocation) =>
          /\ error' = NoGeoMsg
          /\ UNCHANGED <<data, lastRequest, fetchA, fetchB, positionRequests>>]_vars
  /\ [][(onUseLocation /\ geolocation) =>
          UNCHANGED <<data, lastRequest, fetchA, fetchB, error>>]_vars
  /\ [][onPositionError =>
          /\ error' = GeoDeniedMsg
          /\ UNCHANGED <<data, lastRequest, fetchA, fetchB>>]_vars
  /\ [][\A k \in 1..Len(positionRequests) : \A position \in Positions :
          (apiKey /\ Render(positionSuccess(State, k, position))) =>
            /\ OneWeatherCall
            /\ DOMAIN fetchA'[Len(fetchA')].params = {"units", "lat", "lon"}
            /\ fetchA'[Len(fetchA')].params.lat = position.lat
            /\ fetchA'[Len(fetchA')].params.lon = position.lon
            /\ fetchB' = fetchB]_vars

\* a position was reported and the call for it is in flight; a later
\* position request was denied
C14_Witness ==
  /\ error = GeoDeniedMsg /\ Len(fetchA) = 1 /\ positionRequests = <<>>
  /\ DOMAIN fetchA[1].params = {"units", "lat", "lon"}
  /\ \E position \in Positions :
       /\ fetchA[1].params.lat = position.lat
       /\ fetchA[1].params.lon = position.lon
       /\ lastRequest = [lat |-> position.lat, lon |-> position.lon]

\* the category the documented table gives a weather code, first match
\* winning
Documented(code) ==
  CASE code = 0 -> "Clear"
    [] code \in 1..3 -> "Clouds"
    [] code \in {45, 48} -> "Fog"
    [] code \in 51..55 -> "Drizzle"
    [] code \in 61..67 -> "Rain"
    [] code \in 71..77 -> "Snow"
    [] code \in 80..82 -> "Showers"
    [] code \in {85, 86} -> "Snow"
    [] code >= 95 -> "Storm"
    [] OTHER -> "Clear"

\* C15: the weather-code mapping is total and matches the documented
\* table.  Every day of the forecast held, whatever its integer code, is
\* shown with the category the table gives that code.
C15_WeatherCodeMapping ==
  weekly # Null =>
    /\ Len(summaries(weekly)) = weekly.length
    /\ \A index \in 1..weekly.length :
         summaries(weekly)[index].label = Documented(weekly.items[index].code)

\* a forecast is held whose day has a code of no documented range, and it
\* is shown as Clear
C15_Witness ==
  /\ weekly # Null
  /\ weekly.items[1].code = 90
  /\ summaries(weekly)[1] = [label |-> "Clear", emoji |-> "U+2728"]

\* C16: for each pipeline the loading flag is true in every state where
\* one of its calls is in flight.
C16_LoadingWhileInFlight ==
  /\ fetchA # <<>> => loading
  /\ fetchB # <<>> => weeklyLoading

\* nothing asynchronous is pending
Quiescent == fetchA = <<>> /\ fetchB = <<>> /\ positionRequests = <<>>

\* the temperatures the providers report, read in the unit system u
\* (20 C = 68 F, 25 C = 77 F)
Reported(u) == IF u = "imperial" THEN {68, 77} ELSE {20, 25}

\* C17: unit consistency at quiescence.  With nothing pending, the
\* current-conditions result held was fetched in the current unit system,
\* and so were the temperatures of the forecast held.
C17_UnitConsistency ==
  Quiescent =>
    /\ data # Null => data.main.temp \in Reported(units)
    /\ weekly # Null =>
         \A index \in 1..weekly.length :
           weekly.items[index].tempMax \in Reported(units)

\* C18: each fetch state is one of idle, loading, success, error.  No state
\* holds a current-conditions value together with an error message, nor a
\* forecast value together with a forecast error message.
C18_OneFetchState ==
  /\ ~(data # Null /\ error # "")
  /\ ~(weekly # Null /\ weeklyError # "")

\* the series of daily has an element at index i
Has(daily, series, i) == series \in DOMAIN daily /\ i <= Len(daily[series])

\* the entry e has the numeric field from index i of the series, or 0
Numeric(e, field, daily, series, i) ==
  /\ field \in DOMAIN e
  /\ e[field] = IF Has(daily, series, i) THEN daily[series][i] ELSE 0

\* the entry e has the field from index i of the series, or has it not
Maybe(e, field, daily, series, i) ==
  IF Has(daily, series, i)
  THEN field \in DOMAIN e /\ e[field] = daily[series][i]
  ELSE field \notin DOMAIN e

\* C19: a successful forecast answer is stored as one entry per element of
\* daily.time, in the same order: entry i has its date from time[i]; its
\* code and its two temperatures from index i of their series, or 0 where
\* the series or the index is missing; its UV maximum, sunrise and sunset
\* from index i of their series, or no such field where it is missing.
C19_ForecastMapping ==
  [][\A k \in 1..Len(fetchB) : \A r \in WideProviderB(fetchB[k].params) :
       (/\ r.type = "response" /\ r.ok /\ ~SeriesMissing(r.body)
        /\ Render(settleForecast(State, k, r)))
       => LET daily == r.body.daily IN
          /\ weekly' # Null
          /\ weekly'.length = Len(daily.time)
          /\ Len(weekly'.items) = Len(daily.time)
          /\ \A i \in 1..Len(daily.time) :
               LET e == weekly'.items[i] IN
               /\ e.date = daily.time[i]
               /\ Numeric(e, "code", daily, "weathercode", i)
               /\ Numeric(e, "tempMax", daily, "temperature_2m_max", i)
               /\ Numeric(e, "tempMin", daily, "temperature_2m_min", i)
               /\ Maybe(e, "uvMax", daily, "uv_index_max", i)
               /\ Maybe(e, "sunrise", daily, "sunrise", i)
               /\ Maybe(e, "sunset", daily, "sunset", i)
               /\ DOMAIN e \subseteq {"date", "code", "tempMax", "tempMin",
                                      "uvMax", "sunrise", "sunset"}]_vars

\* a forecast of two days is held whose series were shorter than time or
\* absent: the second day has code 0 by default and no UV maximum, the
\* first has both from the answer; neither has a sunset
C19_Witness ==
  /\ weekly # Null /\ weekly.length = 2
  /\ weekly.items[1].date = "d1" /\ weekly.items[2].date = "d2"
  /\ weekly.items[1].code = 61 /\ weekly.items[2].code = 0
  /\ weekly.items[1].tempMin = 0 /\ weekly.items[2].tempMin = 0
  /\ "uvMax" \in DOMAIN weekly.items[1] /\ "uvMax" \notin DOMAIN weekly.items[2]
  /\ "sunset" \notin DOMAIN weekly.items[1] /\ "sunset" \notin DOMAIN weekly.items[2]

====
